---- MODULE Spec2Model ----
(***************************************************************************)
(* Form-101 export / import pipelines (export_f101_to_csv.py and           *)
(* import_f101_from_csv.py) over one PostgreSQL store and two CSV files.   *)
(* A run is one invocation of export_f101_to_csv() or                      *)
(* import_f101_from_csv(); it owns one psycopg2 connection with            *)
(* autocommit off, so statements accumulate in the connection's open       *)
(* transaction until conn.commit() or conn.rollback().                     *)
(***************************************************************************)
EXTENDS Integers, Sequences, FiniteSets, TLC

VARIABLES
    etl_logs,     \* committed rows of logs.etl_logs: log_id -> Run Record
    status_hist,  \* per log_id, the statuses that were committed, in order
    log_seq,      \* the log_id sequence of logs.etl_logs
    dest,         \* committed dm.dm_f101_round_f_v2: [exists, columns, rows]
    src_table,    \* rows of dm.dm_f101_round_f
    out_csv,      \* data/f101_round_data.csv
    in_csv,       \* data/f101_round_data_modified.csv
    pc,           \* per run: the step the run is at
    kind,         \* per run: "export" or "import"
    tx,           \* per run: the connection and its open transaction
    log_id,       \* per run: the local log_id (0: not in locals())
    df,           \* per run: the DataFrame
    page_size,    \* per run: page_size given to execute_batch
    err,          \* per run: the exception the except clause caught
    raised,       \* per run: the exception that reached the caller
    steps,        \* per run: the steps executed so far, in order
    faults,       \* per run: steps at which the environment made a store call fail
    obs           \* per run: snapshots taken at start and end of the run

vars == <<etl_logs, status_hist, log_seq, dest, src_table, out_csv, in_csv,
          pc, kind, tx, log_id, df, page_size, err, raised, steps, faults, obs>>

store_vars == <<etl_logs, status_hist, dest>>
file_vars == <<out_csv, in_csv>>

----------------------------------------------------------------------------
(* Bounds *)

MaxRows == 2
MaxBatch == 2

(* The two invocations the model follows, one after the other. *)
Runs == {"r1", "r2"}

(* page_size of the execute_batch call *)
PAGE_SIZE == 1000

----------------------------------------------------------------------------
(* Values *)

NULL == "<null>"     \* SQL NULL / Python None
NaN  == "<nan>"      \* pandas missing value (float nan)
BadS == "!s"         \* a text the store rejects on INSERT (constraint or type)
BadC == "!c"         \* a value psycopg2 cannot adapt (mogrify raises)
NoErr == "none"

Cols == <<"a", "b">>                 \* column order of dm.dm_f101_round_f
SOURCE_TABLE == "dm.dm_f101_round_f"
TARGET_TABLE == "dm.dm_f101_round_f_v2"

Range(s) == {s[i] : i \in DOMAIN s}

SeqsUpTo(S, n) == UNION {[1..k -> S] : k \in 0..n}

BagOf(s) == [x \in Range(s) |-> Cardinality({i \in DOMAIN s : s[i] = x})]

Min(a, b) == IF a < b THEN a ELSE b

(* rows the source table may hold *)
SrcRows == {<<"x", "y">>, <<"x", NULL>>, <<"", "y">>, <<"NA", NULL>>}

(* rows of a hand-edited input file, as CSV text *)
EditedRows == {<<"x", "">>, <<BadS, "y">>, <<BadC, "y">>}

NoFile == [exists |-> FALSE, ok |-> FALSE, header |-> <<>>, rows |-> <<>>]
BadFile == [exists |-> TRUE, ok |-> FALSE, header |-> <<>>, rows |-> <<>>]
CsvFile(h, rs) == [exists |-> TRUE, ok |-> TRUE, header |-> h, rows |-> rs]

NoDf == [columns |-> <<>>, rows |-> <<>>]

----------------------------------------------------------------------------
(* The tabular conversions: pandas and the comprehension of line 130 *)

(* pd.read_sql("SELECT * FROM dm.dm_f101_round_f", conn): every row, the
   store's column order, NULL read as None *)
read_sql(table) == [columns |-> Cols, rows |-> table]

(* df.to_csv(output_file, index=False): a header row, then one line per row;
   a missing value (None, nan) is written as the empty field *)
to_csv_cell(v) == IF v \in {NULL, NaN} THEN "" ELSE v

to_csv(d) ==
    CsvFile(d.columns,
            [i \in DOMAIN d.rows |->
                [j \in DOMAIN d.rows[i] |-> to_csv_cell(d.rows[i][j])]])

(* pd.read_csv(input_file) with its defaults: the first line names the
   columns; an empty field and the default NA literals are read as nan *)
NA_VALUES == {"", "NA"}

read_csv_cell(t) == IF t \in NA_VALUES THEN NaN ELSE t

read_csv(f) ==
    [columns |-> f.header,
     rows |-> [i \in DOMAIN f.rows |->
                 [j \in DOMAIN f.rows[i] |-> read_csv_cell(f.rows[i][j])]]]

(* variant: the value is passed on as read, nan included *)
isna_kept(x) == x

(* None if pd.isna(x) else x *)
isna_to_none(x) == IF x = NaN THEN NULL ELSE x

(* data_tuples = [tuple(None if pd.isna(x) else x for x in row) for row in df.to_numpy()] *)
data_tuples(d) ==
    [i \in DOMAIN d.rows |->
        [j \in DOMAIN d.rows[i] |-> isna_to_none(d.rows[i][j])]]

----------------------------------------------------------------------------
(* INSERT INTO dm.dm_f101_round_f_v2 ("c1", ...) VALUES (%s, ...) *)

(* cur.mogrify(sql, args): raises on a value psycopg2 cannot adapt *)
mogrify_ok(tuple) == \A j \in DOMAIN tuple : tuple[j] # BadC

(* the store rejects a column the table does not have and a value that
   violates the column's type or constraint *)
store_accepts(columns, tuple) ==
    /\ \A j \in DOMAIN columns : columns[j] \in Range(Cols)
    /\ \A j \in DOMAIN tuple : tuple[j] # BadS

(* the stored row: values go to the columns named in the column list, a
   column not named takes its default *)
insert_row(columns, tuple) ==
    [i \in DOMAIN Cols |->
        IF \E j \in DOMAIN columns : columns[j] = Cols[i]
        THEN tuple[CHOOSE j \in DOMAIN columns : columns[j] = Cols[i]]
        ELSE NULL]

(* one page: cur.execute(b";".join(sqls)) runs the statements in order and
   stops at the first the store rejects *)
RECURSIVE execute_page(_, _, _, _)
execute_page(columns, page, i, acc) ==
    IF i > Len(page) THEN [status |-> "ok", rows |-> acc]
    ELSE IF ~store_accepts(columns, page[i]) THEN [status |-> "store", rows |-> acc]
    ELSE execute_page(columns, page, i + 1, Append(acc, insert_row(columns, page[i])))

(* extras.execute_batch(cursor, insert_query, data_tuples, page_size):
   for each page, mogrify every row of the page, then execute the page.
   rows: the rows inserted in the open transaction; sent: the number of
   rows whose statements were sent to the store *)
RECURSIVE execute_batch_from(_, _, _, _, _)
execute_batch_from(columns, tuples, size, first, acc) ==
    IF first > Len(tuples) THEN [status |-> "ok", rows |-> acc, sent |-> Len(tuples)]
    ELSE
      LET last == Min(first + size - 1, Len(tuples))
          page == SubSeq(tuples, first, last)
      IN  IF \E i \in DOMAIN page : ~mogrify_ok(page[i])
          THEN [status |-> "client", rows |-> acc, sent |-> first - 1]
          ELSE LET res == execute_page(columns, page, 1, <<>>)
               IN  IF res.status = "store"
                   THEN [status |-> "store", rows |-> acc \o res.rows, sent |-> last]
                   ELSE execute_batch_from(columns, tuples, size, last + 1,
                                           acc \o res.rows)

execute_batch(columns, tuples, size) == execute_batch_from(columns, tuples, size, 1, <<>>)

----------------------------------------------------------------------------
(* The connection and its transaction.  st: "none" (conn is None), "idle"
   (no transaction), "open", "aborted" (a statement failed: every further
   statement is refused until rollback), "closed". *)

EmptyLogs == [id \in {} |-> NoErr]

NoConn == [st |-> "none", create |-> FALSE, trunc |-> FALSE, rows |-> <<>>,
           logs |-> EmptyLogs, lock |-> FALSE]

IdleTx == [NoConn EXCEPT !.st = "idle"]

(* conn.rollback(): the pending writes are dropped *)
rollback(t) == IF t.st \in {"none", "closed"} THEN t ELSE IdleTx

(* variant: the connection is left as it is *)
close_skipped(t) == t

(* conn.close(): an open transaction is rolled back by the server *)
close(t) == [NoConn EXCEPT !.st = "closed"]

(* conn.commit(): the pending writes of an open transaction become
   committed together; an aborted transaction commits nothing *)
commit_logs(t, logs) ==
    IF t.st # "open" THEN logs
    ELSE [id \in DOMAIN t.logs \cup DOMAIN logs |->
            IF id \in DOMAIN t.logs THEN t.logs[id] ELSE logs[id]]

commit_hist(t, hist) ==
    IF t.st # "open" THEN hist
    ELSE [id \in DOMAIN t.logs \cup DOMAIN hist |->
            IF id \in DOMAIN t.logs
            THEN Append(IF id \in DOMAIN hist THEN hist[id] ELSE <<>>,
                        t.logs[id].status)
            ELSE hist[id]]

(* variant: the committing transaction's rows replace the table's *)
commit_dest_last_writer(t, d) ==
    IF t.st # "open" THEN d
    ELSE [exists |-> d.exists \/ t.create,
          columns |-> IF d.exists THEN d.columns
                      ELSE IF t.create THEN Cols ELSE <<>>,
          rows |-> IF t.trunc \/ t.rows # <<>> THEN t.rows ELSE d.rows]

commit_dest(t, d) ==
    IF t.st # "open" THEN d
    ELSE [exists |-> d.exists \/ t.create,
          columns |-> IF d.exists THEN d.columns
                      ELSE IF t.create THEN Cols ELSE <<>>,
          rows |-> (IF t.trunc THEN <<>> ELSE d.rows) \o t.rows]

(* a statement executed on the connection opens a transaction if none is open *)
begun(t) == [t EXCEPT !.st = "open"]

(* a statement the store rejects leaves the transaction aborted *)
aborted(t) == [t EXCEPT !.st = "aborted"]

----------------------------------------------------------------------------
(* The store as one value, for the operators that commit *)

Store == [logs |-> etl_logs, hist |-> status_hist, dest |-> dest]

commit(t, S) ==
    [logs |-> commit_logs(t, S.logs),
     hist |-> commit_hist(t, S.hist),
     dest |-> commit_dest(t, S.dest)]

SetStore(S) ==
    /\ etl_logs' = S.logs
    /\ status_hist' = S.hist
    /\ dest' = S.dest

HasConn(t) == t.st \notin {"none", "closed"}

----------------------------------------------------------------------------
(* The Run Ledger: log_export_start / log_import_start and
   log_export_end / log_import_end.  fault: the store makes the statement or
   the commit fail.  Each returns the connection and the store afterwards. *)

started_record(table) ==
    [table_name |-> table, status |-> "started", records_processed |-> 0,
     error_message |-> NULL]

(* variant: the INSERT is left in the open transaction, conn.commit() is
   not called *)
log_start_uncommitted(t, S, id, table, fault) ==
    IF fault \/ t.st = "aborted"
    THEN [ok |-> FALSE, tx |-> rollback(t), store |-> S]
    ELSE [ok |-> TRUE,
          tx |-> [begun(t) EXCEPT !.logs = (id :> started_record(table)) @@ @],
          store |-> S]

(* variant: a failure of the INSERT or of its commit is rolled back and
   not re-raised *)
log_start_swallow(t, S, id, table, fault) ==
    IF fault \/ t.st = "aborted"
    THEN [ok |-> TRUE, tx |-> rollback(t), store |-> S]
    ELSE LET t1 == [begun(t) EXCEPT !.logs = (id :> started_record(table)) @@ @]
         IN  [ok |-> TRUE, tx |-> IdleTx, store |-> commit(t1, S)]

(* INSERT ... RETURNING log_id; fetchone; conn.commit(); on any exception
   conn.rollback() and re-raise *)
log_start(t, S, id, table, fault) ==
    IF fault \/ t.st = "aborted"
    THEN [ok |-> FALSE, tx |-> rollback(t), store |-> S]
    ELSE LET t1 == [begun(t) EXCEPT !.logs = (id :> started_record(table)) @@ @]
         IN  [ok |-> TRUE, tx |-> IdleTx, store |-> commit(t1, S)]

(* the row the UPDATE ... WHERE log_id = id sees: the connection's own
   pending version, else the committed one *)
visible_logs(t, S) ==
    [id \in DOMAIN t.logs \cup DOMAIN S.logs |->
        IF id \in DOMAIN t.logs THEN t.logs[id] ELSE S.logs[id]]

(* variant: a failing closing write has committed its UPDATE before it
   raises *)
log_end_commit_then_fail(t, S, id, status, records_processed, error_msg, fault) ==
    IF t.st = "aborted"
    THEN [ok |-> FALSE, tx |-> rollback(t), store |-> S]
    ELSE LET vis == visible_logs(t, S)
             t1 == IF id \in DOMAIN vis
                   THEN [begun(t) EXCEPT !.logs =
                           (id :> [vis[id] EXCEPT !.status = status,
                                                  !.records_processed = records_processed,
                                                  !.error_message = error_msg]) @@ @]
                   ELSE begun(t)
         IN  [ok |-> ~fault, tx |-> IdleTx, store |-> commit(t1, S)]

(* UPDATE logs.etl_logs SET end_time, status, records_processed,
   error_message WHERE log_id = id; conn.commit(); on any exception
   conn.rollback() and re-raise.  A transaction left aborted by an earlier
   statement refuses the UPDATE. *)
log_end(t, S, id, status, records_processed, error_msg, fault) ==
    IF fault \/ t.st = "aborted"
    THEN [ok |-> FALSE, tx |-> rollback(t), store |-> S]
    ELSE LET vis == visible_logs(t, S)
             t1 == IF id \in DOMAIN vis
                   THEN [begun(t) EXCEPT !.logs =
                           (id :> [vis[id] EXCEPT !.status = status,
                                                  !.records_processed = records_processed,
                                                  !.error_message = error_msg]) @@ @]
                   ELSE begun(t)
         IN  [ok |-> TRUE, tx |-> IdleTx, store |-> commit(t1, S)]

(* the error log_*_end raises: the refusal of an aborted transaction, or
   the store's error *)
log_end_error(t) == IF t.st = "aborted" THEN "InFailedSqlTransaction" ELSE "LedgerWriteError"

(* variant: the table is dropped and created again *)
create_table_copy_anew(t, S, fault) ==
    IF fault \/ t.st = "aborted"
    THEN [ok |-> FALSE, tx |-> rollback(t), store |-> S]
    ELSE LET t1 == [begun(t) EXCEPT !.create = TRUE, !.trunc = TRUE]
         IN  [ok |-> TRUE, tx |-> IdleTx, store |-> commit(t1, S)]

(* create_table_copy: CREATE TABLE IF NOT EXISTS ... (LIKE ...); commit; on
   any exception rollback and re-raise.  The statement copies the reference
   table's columns, defaults and constraints when the table is absent and
   does nothing when it exists. *)
create_table_copy(t, S, fault) ==
    IF fault \/ t.st = "aborted"
    THEN [ok |-> FALSE, tx |-> rollback(t), store |-> S]
    ELSE LET t1 == [begun(t) EXCEPT !.create = TRUE]
         IN  [ok |-> TRUE, tx |-> IdleTx, store |-> commit(t1, S)]

(* variant: the statement commits and leaves the table's rows in place *)
truncate_rows_kept(t, S, fault) ==
    IF fault = "store" \/ t.st = "aborted"
    THEN [ok |-> FALSE, tx |-> aborted(t), store |-> S]
    ELSE IF fault = "commit"
    THEN [ok |-> FALSE, tx |-> IdleTx, store |-> S]
    ELSE [ok |-> TRUE, tx |-> IdleTx, store |-> commit(begun(t), S)]

(* lines 125-127: TRUNCATE TABLE; conn.commit(), with no rollback on failure.
   fault "store": the TRUNCATE is rejected and the transaction stays aborted;
   fault "commit": the commit fails and the store ends the transaction. *)
truncate(t, S, fault) ==
    IF fault = "store" \/ t.st = "aborted"
    THEN [ok |-> FALSE, tx |-> aborted(t), store |-> S]
    ELSE IF fault = "commit"
    THEN [ok |-> FALSE, tx |-> IdleTx, store |-> S]
    ELSE LET t1 == [begun(t) EXCEPT !.trunc = TRUE, !.rows = <<>>]
         IN  [ok |-> TRUE, tx |-> IdleTx, store |-> commit(t1, S)]

(* lines 144-150: the rows execute_batch inserted stay in the connection's
   open transaction; no commit follows the call *)
bulk_insert(t, columns, tuples, size) ==
    LET res == execute_batch(columns, tuples, size)
        t1  == IF res.sent = 0 THEN t
               ELSE [begun(t) EXCEPT !.rows = @ \o res.rows, !.lock = TRUE]
    IN  [status |-> res.status, sent |-> res.sent,
         tx |-> IF res.status = "store" THEN aborted(t1) ELSE t1]

----------------------------------------------------------------------------
(* Step order of the two entry points *)

(* variant: the existence check is made before the store is touched *)
import_steps_exists_first ==
    <<"connect", "exists", "provision", "begin", "read", "truncate", "insert", "end">>

(* variant: the table is truncated before the input file is looked at *)
import_steps_truncate_first ==
    <<"connect", "provision", "begin", "truncate", "exists", "read", "insert", "end">>

(* variant: the ledger begin is made before the provisioning *)
import_steps_begin_first ==
    <<"connect", "begin", "provision", "exists", "read", "truncate", "insert", "end">>

import_steps ==
    <<"connect", "provision", "begin", "exists", "read", "truncate", "insert", "end">>

export_steps == <<"connect", "begin", "extract", "write", "end">>

steps_of(k) == IF k = "import" THEN import_steps ELSE export_steps

next_step(k, s) ==
    LET sq == steps_of(k)
        i  == CHOOSE j \in DOMAIN sq : sq[j] = s
    IN  IF i = Len(sq) THEN "finally" ELSE sq[i + 1]

table_of(k) == IF k = "import" THEN TARGET_TABLE ELSE SOURCE_TABLE

BatchSizes == (1..MaxBatch) \cup {PAGE_SIZE}

Active(r) == pc[r] \notin {"idle", "done"}

----------------------------------------------------------------------------
(* Initial states.  Either the source table holds some rows and no input
   file has been provided yet, or an input file has been written by hand. *)

Headers == {Cols, <<"b", "a">>}

EditedFiles ==
    {BadFile} \cup
    {CsvFile(h, rs) : h \in Headers, rs \in SeqsUpTo(EditedRows, MaxRows)}

Init ==
    /\ etl_logs = EmptyLogs
    /\ status_hist = EmptyLogs
    /\ log_seq = 0
    /\ dest = [exists |-> FALSE, columns |-> <<>>, rows |-> <<>>]
    /\ out_csv = NoFile
    /\ \/ src_table \in SeqsUpTo(SrcRows, MaxRows) /\ in_csv = NoFile
       \/ src_table = <<>> /\ in_csv \in EditedFiles
    /\ pc = [r \in Runs |-> "idle"]
    /\ kind = [r \in Runs |-> "import"]
    /\ tx = [r \in Runs |-> NoConn]
    /\ log_id = [r \in Runs |-> 0]
    /\ df = [r \in Runs |-> NoDf]
    /\ page_size = [r \in Runs |-> 0]
    /\ err = [r \in Runs |-> NoErr]
    /\ raised = [r \in Runs |-> NoErr]
    /\ steps = [r \in Runs |-> <<>>]
    /\ faults = [r \in Runs |-> {}]
    /\ obs = [r \in Runs |-> [ids0 |-> {}, dest0 |-> <<>>, dest1 |-> <<>>,
                              ids1 |-> {}, out1 |-> NoFile, sent |-> 0,
                              after |-> {}]]

----------------------------------------------------------------------------
(* Steps shared by both entry points *)

Step(r, s) == steps' = [steps EXCEPT ![r] = Append(@, s)]

Go(r) == pc' = [pc EXCEPT ![r] = next_step(kind[r], pc[r])]

(* variant: the failing step is attempted again *)
Raise_retry(r, e) ==
    /\ err' = [err EXCEPT ![r] = e]
    /\ pc' = pc

Raise(r, e) ==
    /\ err' = [err EXCEPT ![r] = e]
    /\ pc' = [pc EXCEPT ![r] = "except"]

Fault(r, s) == faults' = [faults EXCEPT ![r] = @ \cup {s}]

(* python export_f101_to_csv.py / python import_f101_from_csv.py: the runs
   are invoked one after the other *)
Start(r) ==
    /\ pc[r] = "idle"
    /\ \A q \in Runs : ~Active(q)
    /\ r = "r2" => pc["r1"] = "done"
    /\ \E k \in {"export", "import"} : kind' = [kind EXCEPT ![r] = k]
    /\ pc' = [pc EXCEPT ![r] = "connect"]
    /\ obs' = [obs EXCEPT ![r].ids0 = DOMAIN etl_logs, ![r].dest0 = dest.rows]
    /\ UNCHANGED <<store_vars, log_seq, src_table, file_vars, tx, log_id, df,
                   page_size, err, raised, steps, faults>>

(* create_connection(): psycopg2.connect, autocommit off; logs and re-raises
   on failure, conn stays None *)
Connect(r) ==
    /\ pc[r] = "connect"
    /\ Step(r, "connect")
    /\ \/ /\ tx' = [tx EXCEPT ![r] = IdleTx]
          /\ Go(r)
          /\ UNCHANGED <<err, faults>>
       \/ /\ Raise(r, "ConnectionError")
          /\ Fault(r, "connect")
          /\ UNCHANGED tx
    /\ UNCHANGED <<store_vars, log_seq, src_table, file_vars, kind, log_id, df,
                   page_size, raised, obs>>

(* log_id = log_export_start(conn) / log_import_start(conn) *)
Begin(r) ==
    /\ pc[r] = "begin"
    /\ Step(r, "begin")
    /\ \E fault \in BOOLEAN :
         LET id  == log_seq + 1
             res == log_start(tx[r], Store, id, table_of(kind[r]), fault)
         IN  /\ SetStore(res.store)
             /\ tx' = [tx EXCEPT ![r] = res.tx]
             /\ IF res.ok
                THEN /\ log_id' = [log_id EXCEPT ![r] = id]
                     /\ log_seq' = id
                     /\ Go(r)
                     /\ UNCHANGED <<err, faults>>
                ELSE /\ Raise(r, "LedgerBeginError")
                     /\ Fault(r, "begin")
                     /\ log_seq' \in {log_seq, id}
                     /\ UNCHANGED log_id
    /\ UNCHANGED <<src_table, file_vars, kind, df, page_size, raised, obs>>

(* the closing call of the try body:
   log_export_end(conn, log_id, 'completed', records_exported) /
   log_import_end(conn, log_id, 'completed', records_imported) *)
(* variant: the count is left at its initial 0 *)
records_done_zero(k, d) == 0

records_done(k, d) == IF k = "import" THEN Len(data_tuples(d)) ELSE Len(d.rows)

End(r) ==
    /\ pc[r] = "end"
    /\ Step(r, "end")
    /\ \E fault \in BOOLEAN :
         LET res == log_end(tx[r], Store, log_id[r], "completed",
                            records_done(kind[r], df[r]), NULL, fault)
         IN  /\ SetStore(res.store)
             /\ tx' = [tx EXCEPT ![r] = res.tx]
             /\ IF res.ok
                THEN /\ Go(r)
                     /\ UNCHANGED <<err, faults>>
                ELSE /\ Raise(r, log_end_error(tx[r]))
                     /\ Fault(r, "end")
    /\ UNCHANGED <<log_seq, src_table, file_vars, kind, log_id, df, page_size,
                   raised, obs>>

(* except Exception as e: error_msg = str(e); if conn and 'log_id' in
   locals(): log_*_end(conn, log_id, 'failed', 0, error_msg); raise.
   An exception of log_*_end leaves the clause in place of e. *)
Except(r) ==
    /\ pc[r] = "except"
    /\ IF HasConn(tx[r]) /\ log_id[r] # 0
       THEN /\ Step(r, "end_failed")
            /\ \E fault \in BOOLEAN :
                 LET res == log_end(tx[r], Store, log_id[r], "failed", 0, err[r], fault)
                 IN  /\ fault => tx[r].st # "aborted"
                     /\ SetStore(res.store)
                     /\ tx' = [tx EXCEPT ![r] = res.tx]
                     /\ raised' = [raised EXCEPT ![r] =
                                     IF res.ok THEN err[r] ELSE log_end_error(tx[r])]
                     /\ faults' = [faults EXCEPT ![r] =
                                     IF fault THEN @ \cup {"end_failed"} ELSE @]
       ELSE /\ raised' = [raised EXCEPT ![r] = err[r]]
            /\ UNCHANGED <<store_vars, tx, steps, faults>>
    /\ pc' = [pc EXCEPT ![r] = "finally"]
    /\ UNCHANGED <<log_seq, src_table, file_vars, kind, log_id, df, page_size,
                   err, obs>>

(* finally: if conn: conn.close() *)
Finally(r) ==
    /\ pc[r] = "finally"
    /\ IF HasConn(tx[r])
       THEN /\ tx' = [tx EXCEPT ![r] = close(@)]
            /\ Step(r, "close")
       ELSE UNCHANGED <<tx, steps>>
    /\ pc' = [pc EXCEPT ![r] = "done"]
    /\ obs' = [obs EXCEPT ![r].dest1 = dest.rows, ![r].ids1 = DOMAIN etl_logs,
                            ![r].out1 = out_csv]
    /\ UNCHANGED <<store_vars, log_seq, src_table, file_vars, kind, log_id, df,
                   page_size, err, raised, faults>>

----------------------------------------------------------------------------
(* import_f101_from_csv *)

(* create_table_copy(conn) *)
Provision(r) ==
    /\ pc[r] = "provision"
    /\ Step(r, "provision")
    /\ \E fault \in BOOLEAN :
         LET res == create_table_copy(tx[r], Store, fault)
         IN  /\ SetStore(res.store)
             /\ tx' = [tx EXCEPT ![r] = res.tx]
             /\ IF res.ok
                THEN Go(r) /\ UNCHANGED <<err, faults>>
                ELSE /\ Raise(r, "ProvisionError")
                     /\ IF fault THEN Fault(r, "provision") ELSE UNCHANGED faults
    /\ UNCHANGED <<log_seq, src_table, file_vars, kind, log_id, df, page_size,
                   raised, obs>>

(* if not os.path.exists(input_file): raise FileNotFoundError *)
Exists(r) ==
    /\ pc[r] = "exists"
    /\ Step(r, "exists")
    /\ IF in_csv.exists
       THEN Go(r) /\ UNCHANGED err
       ELSE Raise(r, "MissingInputError")
    /\ UNCHANGED <<store_vars, log_seq, src_table, file_vars, kind, tx, log_id,
                   df, page_size, raised, faults, obs>>

(* df = pd.read_csv(input_file) *)
ReadCsv(r) ==
    /\ pc[r] = "read"
    /\ Step(r, "read")
    /\ IF in_csv.ok
       THEN /\ df' = [df EXCEPT ![r] = read_csv(in_csv)]
            /\ Go(r)
            /\ UNCHANGED err
       ELSE /\ Raise(r, "ParseError")
            /\ UNCHANGED df
    /\ UNCHANGED <<store_vars, log_seq, src_table, file_vars, kind, tx, log_id,
                   page_size, raised, faults, obs>>

(* an INSERT holds its lock on the table until the transaction of its
   connection ends *)
locked_by_other(r) == \E q \in Runs \ {r} : tx[q].lock

(* the runs whose rows and closing 'completed' write are committed *)
committed_runs ==
    {q \in Runs : /\ log_id[q] \in DOMAIN etl_logs
                  /\ etl_logs[log_id[q]].status = "completed"}

(* cursor.execute("TRUNCATE TABLE dm.dm_f101_round_f_v2"); conn.commit().
   The TRUNCATE waits while another connection holds a lock on the table. *)
Truncate(r) ==
    /\ pc[r] = "truncate"
    /\ ~locked_by_other(r)
    /\ Step(r, "truncate")
    /\ obs' = [obs EXCEPT ![r].after = committed_runs]
    /\ \E fault \in {"ok", "store", "commit"} :
         LET res == truncate(tx[r], Store, fault)
         IN  /\ SetStore(res.store)
             /\ tx' = [tx EXCEPT ![r] = res.tx]
             /\ IF res.ok
                THEN Go(r) /\ UNCHANGED <<err, faults>>
                ELSE /\ Raise(r, IF fault = "commit" THEN "CommitError"
                                                    ELSE "TruncateError")
                     /\ Fault(r, "truncate")
    /\ UNCHANGED <<log_seq, src_table, file_vars, kind, log_id, df, page_size,
                   raised>>

(* extras.execute_batch(cursor, insert_query, data_tuples, page_size=...) with
   columns = df.columns.tolist() as the column list *)
Insert(r) ==
    /\ pc[r] = "insert"
    /\ Step(r, "insert")
    /\ \E size \in BatchSizes :
         LET res == bulk_insert(tx[r], df[r].columns, data_tuples(df[r]), size)
         IN  /\ page_size' = [page_size EXCEPT ![r] = size]
             /\ tx' = [tx EXCEPT ![r] = res.tx]
             /\ obs' = [obs EXCEPT ![r].sent = res.sent]
             /\ IF res.status = "ok"
                THEN Go(r) /\ UNCHANGED err
                ELSE Raise(r, IF res.status = "store" THEN "LoadStoreError"
                                                      ELSE "LoadClientError")
    /\ UNCHANGED <<store_vars, log_seq, src_table, file_vars, kind, log_id, df,
                   raised, faults>>

----------------------------------------------------------------------------
(* export_f101_to_csv *)

(* df = pd.read_sql(query, conn): the SELECT opens a transaction that stays
   open.  When the SELECT fails pandas rolls the connection back before it
   raises; when fetching the rows or building the frame fails, the
   transaction of the SELECT stays open. *)
Extract(r) ==
    /\ pc[r] = "extract"
    /\ Step(r, "extract")
    /\ \/ /\ df' = [df EXCEPT ![r] = read_sql(src_table)]
          /\ tx' = [tx EXCEPT ![r] = begun(@)]
          /\ Go(r)
          /\ UNCHANGED <<err, faults>>
       \/ /\ Raise(r, "ExtractError")
          /\ Fault(r, "extract")
          /\ tx' \in {[tx EXCEPT ![r] = rollback(@)], [tx EXCEPT ![r] = begun(@)]}
          /\ UNCHANGED df
    /\ UNCHANGED <<store_vars, log_seq, src_table, file_vars, kind, log_id,
                   page_size, raised, obs>>

(* df.to_csv(output_file, index=False, encoding='utf-8'); a failed write
   leaves the file as it was or holding the lines written so far *)
PartialWrites(d) ==
    {to_csv([d EXCEPT !.rows = SubSeq(d.rows, 1, k)]) : k \in 0..(Len(d.rows) - 1)}

WriteCsv(r) ==
    /\ pc[r] = "write"
    /\ Step(r, "write")
    /\ \/ /\ out_csv' = to_csv(df[r])
          /\ Go(r)
          /\ UNCHANGED <<err, faults>>
       \/ /\ Raise(r, "WriteError")
          /\ Fault(r, "write")
          /\ out_csv' \in {out_csv} \cup PartialWrites(df[r])
    /\ UNCHANGED <<store_vars, log_seq, src_table, in_csv, kind, tx, log_id, df,
                   page_size, raised, obs>>

----------------------------------------------------------------------------
(* The operator of the pipelines copies the exported file, unmodified, to
   the path the import reads *)
CopyCsv ==
    /\ \A q \in Runs : ~Active(q)
    /\ out_csv.exists
    /\ in_csv # out_csv
    /\ in_csv' = out_csv
    /\ UNCHANGED <<store_vars, log_seq, src_table, out_csv, pc, kind, tx, log_id,
                   df, page_size, err, raised, steps, faults, obs>>

(* ... or removes the file at that path *)
RemoveCsv ==
    /\ \A q \in Runs : ~Active(q)
    /\ in_csv.exists
    /\ in_csv' = NoFile
    /\ UNCHANGED <<store_vars, log_seq, src_table, out_csv, pc, kind, tx, log_id,
                   df, page_size, err, raised, steps, faults, obs>>

(* ... or damages it by hand so that it no longer parses *)
CorruptCsv ==
    /\ \A q \in Runs : ~Active(q)
    /\ in_csv.exists /\ in_csv.ok
    /\ in_csv' = BadFile
    /\ UNCHANGED <<store_vars, log_seq, src_table, out_csv, pc, kind, tx, log_id,
                   df, page_size, err, raised, steps, faults, obs>>

Next ==
    \/ CopyCsv
    \/ RemoveCsv
    \/ CorruptCsv
    \/ \E r \in Runs :
         \/ Start(r)
         \/ Connect(r)
         \/ Provision(r)
         \/ Begin(r)
         \/ Exists(r)
         \/ ReadCsv(r)
         \/ Truncate(r)
         \/ Insert(r)
         \/ Extract(r)
         \/ WriteCsv(r)
         \/ End(r)
         \/ Except(r)
         \/ Finally(r)

Spec == Init /\ [][Next]_vars

----------------------------------------------------------------------------
(* Two import runs started without waiting for one another, each on its
   own connection, on the same input file and destination table *)

InitConc ==
    /\ etl_logs = EmptyLogs
    /\ status_hist = EmptyLogs
    /\ log_seq = 0
    /\ dest = [exists |-> FALSE, columns |-> <<>>, rows |-> <<>>]
    /\ out_csv = NoFile
    /\ src_table = <<>>
    /\ in_csv \in EditedFiles
    /\ pc = [r \in Runs |-> "idle"]
    /\ kind = [r \in Runs |-> "import"]
    /\ tx = [r \in Runs |-> NoConn]
    /\ log_id = [r \in Runs |-> 0]
    /\ df = [r \in Runs |-> NoDf]
    /\ page_size = [r \in Runs |-> 0]
    /\ err = [r \in Runs |-> NoErr]
    /\ raised = [r \in Runs |-> NoErr]
    /\ steps = [r \in Runs |-> <<>>]
    /\ faults = [r \in Runs |-> {}]
    /\ obs = [r \in Runs |-> [ids0 |-> {}, dest0 |-> <<>>, dest1 |-> <<>>,
                              ids1 |-> {}, out1 |-> NoFile, sent |-> 0,
                              after |-> {}]]

(* python import_f101_from_csv.py, whatever the other run is doing *)
StartConc(r) ==
    /\ pc[r] = "idle"
    /\ pc' = [pc EXCEPT ![r] = "connect"]
    /\ obs' = [obs EXCEPT ![r].ids0 = DOMAIN etl_logs, ![r].dest0 = dest.rows]
    /\ UNCHANGED <<store_vars, log_seq, src_table, file_vars, kind, tx, log_id,
                   df, page_size, err, raised, steps, faults>>

NextConc ==
    \E r \in Runs :
        \/ StartConc(r)
        \/ Connect(r)
        \/ Provision(r)
        \/ Begin(r)
        \/ Exists(r)
        \/ ReadCsv(r)
        \/ Truncate(r)
        \/ Insert(r)
        \/ End(r)
        \/ Except(r)
        \/ Finally(r)

SpecConc == InitConc /\ [][NextConc]_vars

----------------------------------------------------------------------------
(* Properties *)

Done(r) == pc[r] = "done"

Imports == {r \in Runs : kind[r] = "import" /\ pc[r] # "idle"}
Exports == {r \in Runs : kind[r] = "export" /\ pc[r] # "idle"}

HasRecord(r) == log_id[r] # 0 /\ log_id[r] \in DOMAIN etl_logs

LoadErrors == {"LoadStoreError", "LoadClientError"}

Terminal == {"completed", "failed"}

(* C1: when the batch insert of an import run fails, after any number of
   rows were sent and whether the store or the client raised, and the store
   does not fail the closing write on its own, the run ends with its Run
   Record failed, records_processed 0 and error_message the text of the
   cause. *)
C1_LedgerFailureAccounting ==
    \A r \in Imports :
        (Done(r) /\ err[r] \in LoadErrors /\ "end_failed" \notin faults[r])
        => /\ HasRecord(r)
           /\ etl_logs[log_id[r]].status = "failed"
           /\ etl_logs[log_id[r]].records_processed = 0
           /\ etl_logs[log_id[r]].error_message = err[r]

(* C2: whenever a step of a run has failed, the error that reaches the
   caller is that step's error, also when the closing 'failed' write of the
   ledger fails too. *)
C2_OriginalErrorReachesCaller ==
    \A r \in Runs :
        (Done(r) /\ err[r] # NoErr) => raised[r] = err[r]

(* C3: a run whose begin committed a Run Record ends, when the store does
   not fail the closing write on its own, with that record completed or
   failed, never still started. *)
C3_LedgerTermination ==
    \A r \in Runs :
        (Done(r) /\ log_id[r] # 0 /\ "end_failed" \notin faults[r])
        => HasRecord(r) /\ etl_logs[log_id[r]].status \in Terminal

(* C4: a run that returns normally created exactly one Run Record, whose
   committed statuses are started then completed, and whose
   records_processed is the number of rows written to the CSV (export) or
   committed in the destination table (import). *)
C4_LedgerCompleteness ==
    \A r \in Runs :
        (Done(r) /\ raised[r] = NoErr)
        => /\ HasRecord(r)
           /\ obs[r].ids1 \ obs[r].ids0 = {log_id[r]}
           /\ status_hist[log_id[r]] = <<"started", "completed">>
           /\ etl_logs[log_id[r]].records_processed =
                 IF kind[r] = "export" THEN Len(obs[r].out1.rows)
                                       ELSE Len(obs[r].dest1)

C4_Witness ==
    /\ Done("r1") /\ kind["r1"] = "export" /\ raised["r1"] = NoErr
    /\ Done("r2") /\ kind["r2"] = "import" /\ raised["r2"] = NoErr
    /\ HasRecord("r1") /\ etl_logs[log_id["r1"]].records_processed = 2
    /\ HasRecord("r2") /\ etl_logs[log_id["r2"]].records_processed = 2

(* C5, as claimed: an import run that fails on the missing input file has
   touched the store in no way: no provisioning, no ledger insert, no
   truncate, and no Run Record of its own. *)
C5_MissingFileBeforeStore ==
    \A r \in Imports :
        err[r] = "MissingInputError"
        => /\ Range(steps[r]) \cap {"provision", "begin", "truncate"} = {}
           /\ log_id[r] = 0

(* C5, amended: an import run that fails on the missing input file has
   connected, provisioned and committed its started Run Record before the
   check, in that order, and executes neither the truncate nor the insert:
   the destination rows stay as they were at the start of the run. *)
C5_MissingFileAfterBegin ==
    \A r \in Imports :
        err[r] = "MissingInputError"
        => /\ Len(steps[r]) >= 4
           /\ SubSeq(steps[r], 1, 4) = <<"connect", "provision", "begin", "exists">>
           /\ Range(steps[r]) \cap {"truncate", "insert"} = {}
           /\ HasRecord(r)
           /\ status_hist[log_id[r]][1] = "started"
           /\ (IF Done(r) THEN obs[r].dest1 ELSE dest.rows) = obs[r].dest0

C5_Witness ==
    \E r \in Imports :
        /\ Done(r) /\ raised[r] = "MissingInputError"
        /\ HasRecord(r) /\ etl_logs[log_id[r]].status = "failed"
        /\ obs[r].dest0 # <<>>

(* C6: after an import run whose insert failed in some batch, no row of
   the earlier batches is committed in the destination table. *)
C6_FailingBatchAbortsLoad ==
    \A r \in Imports :
        (Done(r) /\ err[r] \in LoadErrors) => obs[r].dest1 = <<>>

(* C7: the insert step commits its rows itself: when the insert has
   returned and the closing ledger update has not begun, the rows of the
   buffer are committed in the destination table. *)
C7_InsertCommitsItself ==
    \A r \in Imports :
        pc[r] = "end" => Len(dest.rows) = Len(df[r].rows)

(* C8: once begin has returned a log_id, the Run Record is committed, its
   first committed state is started with records_processed 0, and it stays
   committed whatever is rolled back later in the run. *)
C8_DurableStartedMarker ==
    \A r \in Runs :
        log_id[r] # 0
        => /\ log_id[r] \in DOMAIN etl_logs
           /\ status_hist[log_id[r]][1] = "started"
           /\ (Len(status_hist[log_id[r]]) = 1
               => etl_logs[log_id[r]] = started_record(table_of(kind[r])))

C8_Witness ==
    \E r \in Imports :
        /\ Done(r) /\ err[r] = "LoadStoreError"
        /\ raised[r] = "InFailedSqlTransaction"
        /\ obs[r].sent > 0
        /\ HasRecord(r) /\ etl_logs[log_id[r]] = started_record(TARGET_TABLE)

(* C9: two import runs that read the same CSV, met no failure of the store
   itself and reached the insert end with the same committed destination
   rows and the same records_processed, whatever their batch sizes. *)
C9_BatchSizeIndependence ==
    \A r \in Imports : \A q \in Imports :
        ( /\ Done(r) /\ Done(q)
          /\ df[r] = df[q]
          /\ faults[r] = {} /\ faults[q] = {}
          /\ "insert" \in Range(steps[r]) /\ "insert" \in Range(steps[q]) )
        => /\ obs[r].dest1 = obs[q].dest1
           /\ etl_logs[log_id[r]].records_processed =
                 etl_logs[log_id[q]].records_processed

(* The round trip: r1 exported the source table and returned normally, its
   output was copied unmodified, and r2 provisioned the target and imported
   that file and returned normally. *)
RoundTripDone ==
    /\ Done("r1") /\ kind["r1"] = "export" /\ raised["r1"] = NoErr
    /\ Done("r2") /\ kind["r2"] = "import" /\ raised["r2"] = NoErr
    /\ df["r2"] = read_csv(obs["r1"].out1)

MissingMarkers == {NULL, "", "NA"}

NullNormalized(rows) ==
    [i \in DOMAIN rows |->
        [j \in DOMAIN rows[i] |->
            IF rows[i][j] \in MissingMarkers THEN NULL ELSE rows[i][j]]]

----------------------------------------------------------------------------
DestAt(r) == IF Done(r) THEN obs[r].dest1 ELSE dest.rows

(* C11: the provisioning step run when the target table already exists
   raises no error of its own and leaves the table's structure and rows as
   they were; once the step has returned, in a first or in a second run,
   the one target table exists with the reference table's columns. *)
C11_IdempotentProvisioning ==
    \A r \in Imports :
        /\ err[r] = "ProvisionError" => "provision" \in faults[r]
        /\ pc[r] = "begin"
           => /\ dest.exists
              /\ dest.columns = Cols
              /\ dest.rows = obs[r].dest0

C11_Witness ==
    /\ kind["r1"] = "import" /\ Done("r1") /\ "provision" \in Range(steps["r1"])
    /\ kind["r2"] = "import" /\ pc["r2"] = "begin"
    /\ obs["r2"].dest0 # <<>>
    /\ dest.rows = obs["r2"].dest0

(* C12: a run that acquired its connection has closed it when it returns
   or raises, on every exit path, and the close is the last thing it did:
   no step follows it on that connection.  A run without a connection is
   one whose connect failed. *)
C12_ConnectionRelease ==
    \A r \in Runs :
        /\ Done(r) => tx[r].st \in {"none", "closed"}
        /\ (Done(r) /\ tx[r].st = "none") => err[r] = "ConnectionError"
        /\ tx[r].st = "closed"
           => /\ Done(r)
              /\ steps[r][Len(steps[r])] = "close"
              /\ Cardinality({i \in DOMAIN steps[r] : steps[r][i] = "close"}) = 1

C12_Witness ==
    \E r \in Runs :
        /\ Done(r) /\ tx[r].st = "closed"
        /\ err[r] # NoErr /\ raised[r] # err[r]
        /\ "end_failed" \in faults[r]

(* b is executed only after a has been *)
Precedes(s, a, b) ==
    \A j \in DOMAIN s :
        s[j] = b => \E i \in 1..(j - 1) : s[i] = a

IdsAt(r) == IF Done(r) THEN obs[r].ids1 ELSE DOMAIN etl_logs

ExportOrder(s) ==
    /\ Precedes(s, "begin", "extract")
    /\ Precedes(s, "extract", "write")
    /\ Precedes(s, "write", "end")
    /\ Precedes(s, "extract", "end_failed")

(* C13, as claimed: in an import run the ledger begin comes before the
   provisioning, the provisioning before the load, the load before the
   ledger end, so that a provisioning failure finds the run's started
   record committed; in an export run begin comes before the extraction
   and the extraction before the ledger end. *)
C13_BeginThenProvision ==
    /\ \A r \in Imports :
         /\ Precedes(steps[r], "begin", "provision")
         /\ Precedes(steps[r], "provision", "exists")
         /\ Precedes(steps[r], "insert", "end")
         /\ Precedes(steps[r], "exists", "end_failed")
         /\ err[r] = "ProvisionError" => HasRecord(r)
    /\ \A r \in Exports : ExportOrder(steps[r])

(* C13, amended: in an import run the provisioning comes before the ledger
   begin, the begin before the load (existence check, read, truncate,
   insert), the load before the ledger end, so that a provisioning failure
   occurs with no Run Record created by the run and none is written for
   it; in an export run begin comes before the extraction and the
   extraction before the ledger end. *)
C13_ProvisionThenBegin ==
    /\ \A r \in Imports :
         /\ Precedes(steps[r], "provision", "begin")
         /\ Precedes(steps[r], "begin", "exists")
         /\ Precedes(steps[r], "exists", "read")
         /\ Precedes(steps[r], "read", "truncate")
         /\ Precedes(steps[r], "truncate", "insert")
         /\ Precedes(steps[r], "insert", "end")
         /\ Precedes(steps[r], "exists", "end_failed")
         /\ err[r] = "ProvisionError"
            => /\ log_id[r] = 0
               /\ IdsAt(r) = obs[r].ids0
               /\ "end_failed" \notin Range(steps[r])
    /\ \A r \in Exports : ExportOrder(steps[r])

C13_Witness ==
    /\ kind["r1"] = "import" /\ Done("r1") /\ raised["r1"] = "ProvisionError"
    /\ kind["r2"] = "import" /\ Done("r2") /\ raised["r2"] = NoErr
    /\ obs["r2"].sent > 0

(* C15: every Run Record's committed statuses are 'started' followed by at
   most one closing status, and a record whose committed status is
   completed or failed is never changed again in status, records_processed
   or error_message, also when the 'completed' write failed and the error
   handler then wrote 'failed'. *)
C15_SingleClosingMutation ==
    /\ [](\A id \in DOMAIN status_hist :
            /\ Len(status_hist[id]) \in {1, 2}
            /\ status_hist[id][1] = "started"
            /\ Len(status_hist[id]) = 2 => status_hist[id][2] \in Terminal)
    /\ [][\A id \in DOMAIN etl_logs :
            etl_logs[id].status \in Terminal
            => /\ id \in DOMAIN etl_logs'
               /\ etl_logs'[id] = etl_logs[id]]_vars

C15_Witness ==
    \E r \in Runs :
        /\ Done(r) /\ HasRecord(r)
        /\ "end" \in faults[r]
        /\ "end_failed" \in Range(steps[r])
        /\ status_hist[log_id[r]] = <<"started", "failed">>
        /\ etl_logs[log_id[r]].records_processed = 0

(* the rows of the CSV a run read, missing values as NULL, values under
   the columns the header names *)
CsvRowsOf(r) ==
    [i \in DOMAIN df[r].rows |->
        [c \in DOMAIN Cols |->
            LET j == CHOOSE k \in DOMAIN df[r].columns : df[r].columns[k] = Cols[c]
                v == df[r].rows[i][j]
            IN  IF v = NaN THEN NULL ELSE v]]

Completed(r) == HasRecord(r) /\ etl_logs[log_id[r]].status = "completed"

(* C16: while an import run's Run Record is completed and no other run has
   written since, the committed rows of the destination table are exactly
   the rows of the CSV that run read, null-normalized: none of the rows from
   before the run, every CSV row, and records_processed is their number. *)
C16_CompletedImpliesLoaded ==
    \A r \in Imports :
        Completed(r)
        => /\ "truncate" \in Range(steps[r]) /\ "insert" \in Range(steps[r])
           /\ DestAt(r) = CsvRowsOf(r)
           /\ etl_logs[log_id[r]].records_processed = Len(CsvRowsOf(r))

C16_Witness ==
    \E r \in Imports :
        /\ Done(r) /\ Completed(r)
        /\ obs[r].dest0 # <<>>
        /\ df[r].columns # Cols
        /\ \E i \in DOMAIN df[r].rows : NaN \in Range(df[r].rows[i])
        /\ obs[r].dest1 = CsvRowsOf(r)

InputErrors == {"MissingInputError", "ParseError"}

(* C17: when the import input file is missing or cannot be parsed, the run
   executes neither the truncate nor the insert, and the destination
   table's committed rows at the end of the run are those from before it. *)
C17_NoTruncateOnBadInput ==
    \A r \in Imports :
        err[r] \in InputErrors
        => /\ "truncate" \notin Range(steps[r])
           /\ "insert" \notin Range(steps[r])
           /\ DestAt(r) = obs[r].dest0

C17_Witness ==
    /\ kind["r1"] = "import" /\ Done("r1") /\ obs["r1"].dest1 # <<>>
    /\ kind["r2"] = "import" /\ Done("r2") /\ raised["r2"] = "ParseError"
    /\ "read" \in Range(steps["r2"])
    /\ obs["r2"].dest1 = obs["r1"].dest1

BeginErrors == {"ConnectionError", "LedgerBeginError"}

WorkSteps == {"extract", "write", "truncate", "insert"}

EndSteps == {"end", "end_failed"}

(* C18: a run whose connection or ledger begin fails has no Run Record, has
   executed no extraction, CSV write, truncate or insert and no ledger end
   write, and raises that error to its caller; and a run that has executed
   an extraction, a CSV write, a truncate or an insert has its 'started'
   Run Record committed. *)
C18_BeginFailureIsFatal ==
    \A r \in Runs :
        /\ err[r] \in BeginErrors
           => /\ Range(steps[r]) \cap (WorkSteps \cup EndSteps) = {}
              /\ log_id[r] = 0
              /\ IdsAt(r) = obs[r].ids0
              /\ DestAt(r) = obs[r].dest0
              /\ Done(r) => raised[r] = err[r]
        /\ Range(steps[r]) \cap WorkSteps # {}
           => /\ log_id[r] # 0
              /\ log_id[r] \in DOMAIN etl_logs
              /\ log_id[r] \notin obs[r].ids0

C18_Witness ==
    /\ Done("r1") /\ raised["r1"] = "LedgerBeginError"
    /\ steps["r1"][Len(steps["r1"])] = "close"
    /\ Done("r2") /\ raised["r2"] = "ConnectionError"
    /\ steps["r2"] = <<"connect">>

HandlerSteps == {"end_failed", "close"}

IsPipelineStep(x) == x \notin HandlerSteps

PipelinePart(s) == SelectSeq(s, IsPipelineStep)

IsPrefix(p, s) == Len(p) <= Len(s) /\ SubSeq(s, 1, Len(p)) = p

(* C19: the pipeline steps a run has attempted are an initial part of its
   step list, each attempted once and in order; once a step has failed the
   run is in its error handler or past it, where only the closing 'failed'
   write and the connection close follow, each at most once and after every
   pipeline step. *)
C19_NoRetry ==
    \A r \in Runs :
        LET s == steps[r]
            p == PipelinePart(s)
        IN  /\ IsPrefix(p, steps_of(kind[r]))
            /\ IsPrefix(p, s)
            /\ SubSeq(s, Len(p) + 1, Len(s))
                 \in {<<>>, <<"end_failed">>, <<"close">>, <<"end_failed", "close">>}
            /\ err[r] # NoErr
               => /\ pc[r] \in {"except", "finally", "done"}
                  /\ pc[r] # "except" => raised[r] # NoErr
            /\ pc[r] \in Range(steps_of(kind[r]))
               => /\ err[r] = NoErr
                  /\ Append(s, pc[r]) = SubSeq(steps_of(kind[r]), 1, Len(s) + 1)

C19_Witness ==
    \E r \in Runs :
        /\ Done(r) /\ err[r] = "LoadStoreError"
        /\ steps[r] = <<"connect", "provision", "begin", "exists", "read",
                        "truncate", "insert", "end_failed", "close">>

(* C14: two import runs of the same file on their own connections, started
   without waiting for one another, can both end with a completed Run
   Record while the destination table holds the CSV rows twice: this is the
   outcome exactly when neither run truncated after the other's rows were
   committed; a run that truncated after the other had completed leaves
   its own single copy. *)
C14_ConcurrentImportHazard ==
    (\A r \in Runs : Completed(r))
    => /\ (\A r \in Runs : obs[r].after = {})
          => dest.rows = CsvRowsOf("r1") \o CsvRowsOf("r2")
       /\ \A r \in Runs :
            obs[r].after # {}
            => /\ obs[r].after = Runs \ {r}
               /\ dest.rows = CsvRowsOf(r)

C14_Witness ==
    /\ \A r \in Runs : Done(r) /\ Completed(r) /\ obs[r].after = {}
    /\ CsvRowsOf("r1") # <<>>
    /\ dest.rows = CsvRowsOf("r1") \o CsvRowsOf("r1")
    /\ dest.rows # CsvRowsOf("r1")

====
